---- MODULE Spec2Model ----
(***************************************************************************)
(* CLI_Commander (src/cli_commander.py): a registry of named tmux-backed   *)
(* sessions, persisted to a JSON file, with command dispatch and output    *)
(* capture.                                                                *)
(*                                                                         *)
(* Text is modelled as a sequence of one-character strings, so that        *)
(* strip(), splitlines(), join() and startswith() are computed, not        *)
(* assumed.  A Python dict is modelled as an insertion-ordered sequence of *)
(* records carrying their key in the field "name".                         *)
(***************************************************************************)
EXTENDS Integers, Sequences, FiniteSets, TLC

\* ------------------------------------------------------------------ bounds
\* Environment events in one behaviour: a pane process spawned, a registry
\* write that raises, a tmux call that raises on a live server.
MaxEvents == 3
\* Longest raw pane capture drawn as an input of the diff specification.
MaxLen == 4
\* Commands typed into one pane in one behaviour.
MaxDispatch == 3

\* --------------------------------------------------------------- constants
None == "None"
Names == {"t", "t2"}

\* ------------------------------------------------------------------- text
Min(a, b) == IF a < b THEN a ELSE b

\* str.strip() with no argument removes leading and trailing whitespace.
IsSpace(c) == c \in {" ", "\n", "\t"}

RECURSIVE LStrip(_)
LStrip(s) ==
    IF s = <<>> THEN <<>>
    ELSE IF IsSpace(Head(s)) THEN LStrip(Tail(s)) ELSE s

RECURSIVE RStrip(_)
RStrip(s) ==
    IF s = <<>> THEN <<>>
    ELSE IF IsSpace(s[Len(s)]) THEN RStrip(SubSeq(s, 1, Len(s) - 1)) ELSE s

Strip(s) == RStrip(LStrip(s))

\* str.startswith(kw)
StartsWith(s, kw) == Len(s) >= Len(kw) /\ SubSeq(s, 1, Len(kw)) = kw

\* Index of the first line break in s, 0 when there is none.
RECURSIVE FirstBreak(_, _)
FirstBreak(s, i) ==
    IF i > Len(s) THEN 0
    ELSE IF s[i] = "\n" THEN i ELSE FirstBreak(s, i + 1)

\* str.splitlines(): a trailing line break opens no empty last line.
RECURSIVE SplitLines(_)
SplitLines(s) ==
    IF s = <<>> THEN <<>>
    ELSE LET b == FirstBreak(s, 1)
         IN  IF b = 0 THEN <<s>>
             ELSE <<SubSeq(s, 1, b - 1)>> \o SplitLines(SubSeq(s, b + 1, Len(s)))

\* '\n'.join(lines)
RECURSIVE JoinLines(_)
JoinLines(ls) ==
    IF ls = <<>> THEN <<>>
    ELSE IF Len(ls) = 1 THEN ls[1]
    ELSE ls[1] \o <<"\n">> \o JoinLines(Tail(ls))

\* The literal "(No output)": one line with no whitespace at its ends,
\* kept as a single token.
NoOutput == <<"(No output)">>

\* ----------------------------------------------------- output capture
\* Launch commands, as character sequences.
CmdBash == <<"b", "a", "s", "h">>
CmdPython3 == <<"p", "y", "t", "h", "o", "n", "3">>
CmdEchoHi == <<"e", "c", "h", "o", " ", "h", "i">>

\* repl_keywords = ["python", "python3", "bash", "sh", "zsh"]
repl_keywords ==
    << <<"p", "y", "t", "h", "o", "n">>,
       <<"p", "y", "t", "h", "o", "n", "3">>,
       <<"b", "a", "s", "h">>,
       <<"s", "h">>,
       <<"z", "s", "h">> >>

\* A slip of the keyword list: the shells are left out.
IsRepl_PythonOnly(proc_cmd) ==
    \E i \in {1, 2} : StartsWith(Strip(proc_cmd), repl_keywords[i])

\* A slip of the test: the trimmed command must be a keyword, not start
\* with one.
IsRepl_ExactName(proc_cmd) ==
    \E i \in DOMAIN repl_keywords : Strip(proc_cmd) = repl_keywords[i]

\* is_repl: some keyword is a prefix of the trimmed launch command.
IsRepl(proc_cmd) ==
    \E i \in DOMAIN repl_keywords : StartsWith(Strip(proc_cmd), repl_keywords[i])

\* output = result.stdout.strip(); if not output: output = "(No output)"
CaptureOutput(raw) ==
    LET output == Strip(raw) IN IF output = <<>> THEN NoOutput ELSE output

\* A slip of the loop: no break at the first differing line.
RECURSIVE DiffScan_NoBreak(_, _, _, _)
DiffScan_NoBreak(prev_lines, curr_lines, i, diff_start) ==
    IF i >= Min(Len(prev_lines), Len(curr_lines)) THEN diff_start
    ELSE IF prev_lines[i + 1] # curr_lines[i + 1]
         THEN DiffScan_NoBreak(prev_lines, curr_lines, i + 1, diff_start)
    ELSE DiffScan_NoBreak(prev_lines, curr_lines, i + 1, i + 1)

\* The loop "for i in range(min(len(prev), len(curr)))" with its break:
\* DiffScan(p, c, i, d) is diff_start when the loop is about to run index i
\* (0-based) with diff_start = d.
RECURSIVE DiffScan(_, _, _, _)
DiffScan(prev_lines, curr_lines, i, diff_start) ==
    IF i >= Min(Len(prev_lines), Len(curr_lines)) THEN diff_start
    ELSE IF prev_lines[i + 1] # curr_lines[i + 1] THEN diff_start
    ELSE DiffScan(prev_lines, curr_lines, i + 1, i + 1)

DiffStart(prev_lines, curr_lines) == DiffScan(prev_lines, curr_lines, 0, 0)

\* A slip of the first observation: with no snapshot stored only the last
\* line of the capture is reported.
ReplResponse_LastLineOnFirst(prev_output, output) ==
    IF prev_output # <<>> /\ output # prev_output
    THEN LET prev_lines == SplitLines(prev_output)
             curr_lines == SplitLines(output)
             diff_start == DiffStart(prev_lines, curr_lines)
             diff_lines == SubSeq(curr_lines, diff_start + 1, Len(curr_lines))
             diff_str   == Strip(JoinLines(diff_lines))
         IN  IF diff_str = <<>> THEN NoOutput ELSE diff_str
    ELSE IF prev_output = <<>>
    THEN SplitLines(output)[Len(SplitLines(output))]
    ELSE output

\* A slip of the comparison: an unchanged snapshot is reported as no output.
ReplResponse_SentinelOnEqual(prev_output, output) ==
    IF prev_output # <<>>
    THEN LET prev_lines == SplitLines(prev_output)
             curr_lines == SplitLines(output)
             diff_start == DiffStart(prev_lines, curr_lines)
             diff_lines == SubSeq(curr_lines, diff_start + 1, Len(curr_lines))
             diff_str   == Strip(JoinLines(diff_lines))
         IN  IF diff_str = <<>> THEN NoOutput ELSE diff_str
    ELSE output

\* The text logged as RESPONSE by an interactive dispatch: prev_output is
\* info.get('last_repl_output', ''), the empty text when there is none.
ReplResponse(prev_output, output) ==
    IF prev_output # <<>> /\ output # prev_output
    THEN LET prev_lines == SplitLines(prev_output)
             curr_lines == SplitLines(output)
             diff_start == DiffStart(prev_lines, curr_lines)
             diff_lines == SubSeq(curr_lines, diff_start + 1, Len(curr_lines))
             diff_str   == Strip(JoinLines(diff_lines))
         IN  IF diff_str = <<>> THEN NoOutput ELSE diff_str
    ELSE output

\* --------------------------------------------------------------- state
VARIABLES
    processes,   \* self.processes: the in-memory registry
    file,        \* unified_process_info.json
    tmux,        \* the tmux server: session id -> its pane process
    alive,       \* pids of the live operating-system processes
    nextPid,     \* the pid the next spawned pane process gets
    tmpfile,     \* /tmp/cli_commander_<name>_output.txt, per name
    events,      \* environment events so far
    last,        \* what the last step did and returned to its caller
    calls,       \* invocations of the program under way at the same time
    pane         \* the shell in the pane of session cli_t: keys typed, command running

vars == <<processes, file, tmux, alive, nextPid, tmpfile, events, last, calls, pane>>

\* The pid None (falsy in "if not pid", like 0).
NoPid == 0
\* A text field holding None or '' ("info.get('command', '') or ''").
NoText == <<>>
\* datetime.now(), abstracted to one non-null stamp.
Now == "now"

\* No other invocation under way; the pane shell at its prompt.
NoCalls == <<>>
IdlePane ==
    [typed |-> 0, queue |-> <<>>, running |-> 0, wrote |-> FALSE, linked |-> FALSE]

\* session = f"cli_{name}"
SessionOf(name) == "cli_" \o name
Sessions == {SessionOf(n) : n \in Names}
NoSession == [pid |-> NoPid, command |-> NoText]

\* ---- a dict as an insertion-ordered sequence of records keyed by .name
Keys(p) == {p[i].name : i \in DOMAIN p}
Has(p, name) == name \in Keys(p)
IndexOf(p, name) == CHOOSE i \in DOMAIN p : p[i].name = name
Get(p, name) == p[IndexOf(p, name)]
\* p[name] = info
Put(p, info) ==
    IF Has(p, info.name) THEN [p EXCEPT ![IndexOf(p, info.name)] = info]
    ELSE Append(p, info)
\* del p[name]
Del(p, name) == SelectSeq(p, LAMBDA info : info.name # name)
\* list(p.keys())
KeyList(p) == [i \in DOMAIN p |-> p[i].name]

\* self.processes[name] = {'pid': None, 'command': None, 'start_time': None};
\* the keys 'tmux_session' and 'last_repl_output' are absent, which .get()
\* reads as None and ''.
NewEntry(name) ==
    [name |-> name, pid |-> NoPid, command |-> NoText, start_time |-> None,
     tmux_session |-> None, last_repl_output |-> NoText]

\* ---- the registry file
NoFile == [state |-> "missing", doc |-> <<>>]
Corrupt == [state |-> "corrupt", doc |-> <<>>]
SaveOutcomes == {"ok", "unwritable", "partial"}

\* load_processes: a missing file leaves self.processes = {}; a file that
\* does not parse gives {} and a warning.
LoadProcesses(f) == IF f.state = "ok" THEN f.doc ELSE <<>>

\* ---- the world a handler runs in, and what it reports
Obs(op, name) ==
    [op |-> op, name |-> name, ret |-> FALSE, saved |-> "none", path |-> "none",
     prev |-> NoText, response |-> NoText, shown |-> {}, signals |-> <<>>,
     existed |-> FALSE, spawned |-> NoPid, pid |-> NoPid, command |-> NoText,
     terminated |-> "none", disposition |-> "none"]

World(op, name) ==
    [processes |-> processes, file |-> file, tmux |-> tmux, alive |-> alive,
     nextPid |-> nextPid, tmpfile |-> tmpfile, events |-> events,
     obs |-> Obs(op, name)]

Return(w, ret) == [w EXCEPT !.obs.ret = ret]

\* One more environment event.
Event(w) == [w EXCEPT !.events = @ + 1]

\* save_processes: open(…, 'w') truncates and json.dump writes the whole
\* map.  outcome "unwritable": open() raised, the file is as it was;
\* "partial": the write raised after the truncation, the file no longer
\* parses.  Either exception is logged and swallowed.
SaveProcesses(w, outcome) ==
    IF outcome = "ok"
    THEN [w EXCEPT !.file = [state |-> "ok", doc |-> w.processes],
                   !.obs.saved = outcome]
    ELSE Event([w EXCEPT !.file = IF outcome = "unwritable" THEN @ ELSE Corrupt,
                         !.obs.saved = outcome])

\* ------------------------------------------------- processes and tmux
\* What the environment decides during one handler: whether each registry
\* write succeeds, whether tmux spawns the session and reports its pane pid,
\* whether the keys are sent and the pane captured, what the pane or the
\* redirected command shows, and whether the pane process dies on SIGHUP and
\* on SIGTERM.
SpawnOutcomes == {"fail", "nopid", "ok"}
SendOutcomes == {"fail", "sent", "ok"}

\* is_process_running: os.kill(pid, 0) succeeds.
IsProcessRunning(w, pid) == pid # NoPid /\ pid \in w.alive

\* A process ends; tmux destroys the session whose only pane it ran in.
ProcessDies(w, pid) ==
    [w EXCEPT !.alive = @ \ {pid},
              !.tmux = [s \in Sessions |-> IF @[s].pid = pid THEN NoSession ELSE @[s]]]

\* What a process does on SIGTERM: it exits within the 0.1 s the caller
\* sleeps, it exits later than that, or it ignores the signal.
TermOutcomes == {"dies", "late", "ignored"}

\* A slip of terminate_process: SIGKILL follows SIGTERM without the
\* liveness re-check.
TerminateProcess_NoRecheck(w, pid, term) ==
    IF pid = NoPid \/ pid \notin w.alive THEN [w EXCEPT !.obs.terminated = "false"]
    ELSE LET w1 == [w EXCEPT !.obs.signals = Append(@, "SIGTERM"),
                             !.obs.terminated = "true",
                             !.obs.disposition = term]
             w2 == IF term = "dies" THEN ProcessDies(w1, pid) ELSE w1
         IN  ProcessDies([w2 EXCEPT !.obs.signals = Append(@, "SIGKILL")], pid)

\* terminate_process: False for a null pid and when os.kill(pid, SIGTERM)
\* raises (no such process); else SIGTERM, sleep, then SIGKILL if
\* os.kill(pid, 0) still finds the process, and True.  term = "dies" when
\* the process has exited by the re-check.
TerminateProcess(w, pid, term) ==
    IF pid = NoPid \/ pid \notin w.alive THEN [w EXCEPT !.obs.terminated = "false"]
    ELSE LET w1 == [w EXCEPT !.obs.signals = Append(@, "SIGTERM"),
                             !.obs.terminated = "true",
                             !.obs.disposition = term]
             w2 == IF term = "dies" THEN ProcessDies(w1, pid) ELSE w1
         IN  IF pid \in w2.alive
             THEN ProcessDies([w2 EXCEPT !.obs.signals = Append(@, "SIGKILL")], pid)
             ELSE w2

\* tmux kill-session -t session (exit status ignored): the session goes and
\* its pane process is sent SIGHUP, on which it dies unless it ignores it.
TmuxKillSession(w, session, hup) ==
    IF session \notin Sessions \/ w.tmux[session].pid = NoPid THEN w
    ELSE LET pid == w.tmux[session].pid
             w1  == [w EXCEPT !.tmux[session] = NoSession,
                              !.obs.signals = Append(@, "SIGHUP")]
         IN  IF hup = "dies" THEN [w1 EXCEPT !.alive = @ \ {pid}] ELSE w1

\* tmux new-session -d -s session 'command': a new pane process.
TmuxNewSession(w, session, command) ==
    Event([w EXCEPT !.tmux[session] = [pid |-> w.nextPid, command |-> command],
                    !.alive = @ \cup {w.nextPid},
                    !.nextPid = @ + 1,
                    !.obs.spawned = w.nextPid])

\* ------------------------------------------------------ send_to_process
\* A slip of the interactive branch: the snapshot is stored and not saved.
StoreOutput_NoSave(w, name, output, save) ==
    [w EXCEPT !.processes =
        Put(@, [Get(@, name) EXCEPT !.last_repl_output = output])]

\* info['last_repl_output'] = output; self.save_processes()
StoreOutput(w, name, output, save) ==
    SaveProcesses(
        [w EXCEPT !.processes =
            Put(@, [Get(@, name) EXCEPT !.last_repl_output = output])],
        save)

\* A slip of the interactive branch: a dispatch that raises forgets the
\* session's pid and handle.
ReplDispatch_FailureForgets(w, name, info, e) ==
    LET session == info.tmux_session IN
    IF w.tmux[session].pid = NoPid THEN Return(w, FALSE)
    ELSE IF e.send # "ok"
    THEN Return(Event([w EXCEPT !.processes =
                          Put(@, [info EXCEPT !.pid = NoPid, !.tmux_session = None])]),
                FALSE)
    ELSE LET output == CaptureOutput(e.raw)
             prev_output == info.last_repl_output
             w1 == [w EXCEPT !.obs.path = "repl",
                             !.obs.prev = prev_output,
                             !.obs.response = ReplResponse(prev_output, output)]
         IN  Return(StoreOutput(w1, name, output, e.save), TRUE)

\* The interactive branch: send-keys, sleep, capture-pane, diff, store.
ReplDispatch(w, name, info, e) ==
    LET session == info.tmux_session IN
    IF w.tmux[session].pid = NoPid THEN Return(w, FALSE)
    ELSE IF e.send # "ok" THEN Return(Event(w), FALSE)
    ELSE LET output == CaptureOutput(e.raw)
             prev_output == info.last_repl_output
             w1 == [w EXCEPT !.obs.path = "repl",
                             !.obs.prev = prev_output,
                             !.obs.response = ReplResponse(prev_output, output)]
         IN  Return(StoreOutput(w1, name, output, e.save), TRUE)

\* The other branch: the command, wrapped as "(command) > tmpfile 2>&1", is
\* typed into the pane; after the sleep the file, if there, is read and
\* removed.  With e.send = "ok" the command has written e.raw by then.
OneShotDispatch(w, name, info, e) ==
    LET session == info.tmux_session IN
    IF w.tmux[session].pid = NoPid THEN Return(w, FALSE)
    ELSE IF e.send = "fail" THEN Return(Event(w), FALSE)
    ELSE LET written == IF e.send = "ok"
                        THEN [exists |-> TRUE, text |-> e.raw]
                        ELSE w.tmpfile[name]
             output == IF written.exists THEN Strip(written.text) ELSE NoText
             w1 == [w EXCEPT !.tmpfile[name] = [exists |-> FALSE, text |-> NoText],
                             !.obs.path = "oneshot",
                             !.obs.response = output]
         IN  Return(w1, TRUE)

SendToProcess(w, name, command, e) ==
    IF ~Has(w.processes, name) THEN Return(w, FALSE)
    ELSE LET info == Get(w.processes, name) IN
         IF info.tmux_session = None THEN Return(w, FALSE)
         ELSE IF IsRepl(info.command) THEN ReplDispatch(w, name, info, e)
         ELSE OneShotDispatch(w, name, info, e)

\* ------------------------------------------------------ execute_command
\* A slip of the update: the session id is left out.
RecordSession_NoHandle(w, name, pid, safe_command, session, save) ==
    SaveProcesses(
        [w EXCEPT !.processes =
            Put(@, [Get(@, name) EXCEPT !.pid = pid,
                                        !.command = safe_command,
                                        !.start_time = Now])],
        save)

\* self.processes[name].update({'pid', 'command', 'start_time',
\* 'tmux_session'}); self.save_processes()
RecordSession(w, name, pid, safe_command, session, save) ==
    SaveProcesses(
        [w EXCEPT !.processes =
            Put(@, [Get(@, name) EXCEPT !.pid = pid,
                                        !.command = safe_command,
                                        !.start_time = Now,
                                        !.tmux_session = session])],
        save)

\* action == "run".  e.spawn = "fail": tmux new-session raised; "nopid":
\* the session was created and reading its pane pid raised.
ExecRun(w, name, command, e) ==
    IF ~Has(w.processes, name) THEN Return(w, FALSE)
    ELSE LET safe_command == Strip(command)
             session == SessionOf(name)
             session_exists == w.tmux[session].pid # NoPid
         IN  IF ~session_exists
             THEN IF e.spawn = "fail" THEN Return(Event(w), FALSE)
                  ELSE LET w1 == TmuxNewSession(w, session, safe_command) IN
                       IF e.spawn = "nopid" THEN Return(Event(w1), FALSE)
                       ELSE Return(RecordSession(w1, name, w1.tmux[session].pid,
                                                 safe_command, session, e.save),
                                   TRUE)
             ELSE SendToProcess(w, name, command, e)

\* A slip of "new": an existing name gets a fresh entry all the same.
NewExisting_Recreate(w, name) ==
    Return([w EXCEPT !.processes = Put(@, NewEntry(name)), !.obs.existed = TRUE], TRUE)

\* action == "new" on a name already in the registry: probe and report.
NewExisting(w, name) ==
    LET info == Get(w.processes, name)
        running == IsProcessRunning(w, info.pid)
    IN  Return([w EXCEPT !.obs.existed = TRUE], TRUE)

\* action == "new"
ExecNew(w, name, e) ==
    IF Has(w.processes, name) THEN NewExisting(w, name)
    ELSE LET w1 == [w EXCEPT !.processes = Put(@, NewEntry(name))]
             w2 == SaveProcesses(w1, e.save)
         IN  ExecRun(w2, name, CmdBash, [e EXCEPT !.save = e.save2])

\* A slip of "close": the file is written before the entry is deleted.
DropEntry_SaveFirst(w, name, save) ==
    [SaveProcesses(w, save) EXCEPT !.processes = Del(@, name)]

\* del self.processes[name]; self.save_processes()
DropEntry(w, name, save) ==
    SaveProcesses([w EXCEPT !.processes = Del(@, name)], save)

\* A slip of "close": a name that is not in the map is passed over in
\* silence, the tmux session of that name killed for good measure.
ExecClose_MissingIgnored(w, name, e) ==
    IF ~Has(w.processes, name)
    THEN Return(TmuxKillSession(w, SessionOf(name), e.hup), TRUE)
    ELSE LET info == Get(w.processes, name)
             session == info.tmux_session
             pid == info.pid
             w1 == IF session # None THEN TmuxKillSession(w, session, e.hup) ELSE w
             w2 == IF pid # NoPid /\ IsProcessRunning(w1, pid)
                   THEN TerminateProcess(w1, pid, e.term)
                   ELSE w1
         IN  Return(DropEntry([w2 EXCEPT !.obs.existed = TRUE, !.obs.pid = pid],
                              name, e.save),
                    TRUE)

\* action == "close"
ExecClose(w, name, e) ==
    IF ~Has(w.processes, name) THEN Return(w, FALSE)
    ELSE LET info == Get(w.processes, name)
             session == info.tmux_session
             pid == info.pid
             w1 == IF session # None THEN TmuxKillSession(w, session, e.hup) ELSE w
             w2 == IF pid # NoPid /\ IsProcessRunning(w1, pid)
                   THEN TerminateProcess(w1, pid, e.term)
                   ELSE w1
         IN  Return(DropEntry([w2 EXCEPT !.obs.existed = TRUE, !.obs.pid = pid],
                              name, e.save),
                    TRUE)

\* action == "close_all": close every key of the map, in its order.
RECURSIVE CloseEach(_, _, _)
CloseEach(w, names, es) ==
    IF names = <<>> THEN w
    ELSE CloseEach(ExecClose(w, Head(names), es[Head(names)]), Tail(names), es)

ExecCloseAll(w, es) == Return(CloseEach(w, KeyList(w.processes), es), TRUE)

\* A slip of "list": showing an entry pops its stored snapshot.
ExecList_PopsSnapshot(w, name) ==
    IF name # None
    THEN IF ~Has(w.processes, name) THEN Return(w, FALSE)
         ELSE Return([w EXCEPT !.obs.shown = {name},
                               !.processes = Put(@, [Get(@, name) EXCEPT
                                                       !.last_repl_output = NoText])],
                     TRUE)
    ELSE Return([w EXCEPT !.obs.shown = Keys(w.processes)], TRUE)

\* action == "list", scoped to a name or, with name None, of every entry.
ExecList(w, name) ==
    IF name # None
    THEN IF ~Has(w.processes, name) THEN Return(w, FALSE)
         ELSE Return([w EXCEPT !.obs.shown = {name}], TRUE)
    ELSE Return([w EXCEPT !.obs.shown = Keys(w.processes)], TRUE)

\* ------------------------------------------------------------- inputs
\* Commands given to run and send.
Commands == {CmdPython3, CmdEchoHi}
\* What a pane capture or a redirected command's output may hold.
Raws == {<<"a">>, <<"a", "\n", "b">>}

\* What the actions draw from: the outcomes the environment may give to a
\* registry write, a session spawn and a key send, and the inputs.
Universe ==
    [saves |-> {"ok"}, spawns |-> SpawnOutcomes, sends |-> SendOutcomes,
     commands |-> Commands, raws |-> Raws]
\* Registry writes may fail; tmux calls succeed.
UniverseIO ==
    [saves |-> SaveOutcomes, spawns |-> {"ok"}, sends |-> {"ok"},
     commands |-> {CmdPython3}, raws |-> {<<"a">>}]

DefaultEnv ==
    [save |-> "ok", save2 |-> "ok", spawn |-> "ok", send |-> "ok", raw |-> <<>>,
     hup |-> "dies", term |-> "dies"]

SessionLive(name) == tmux[SessionOf(name)].pid # NoPid

\* The choices the environment has while "run" spawns a session.
SpawnEnvs(u) ==
    {[DefaultEnv EXCEPT !.spawn = sp, !.save = s] :
        sp \in u.spawns, s \in u.saves}

\* ... while send_to_process dispatches to name.
DispatchEnvs(u, name) ==
    IF ~Has(processes, name) \/ ~SessionLive(name) THEN {DefaultEnv}
    ELSE IF Get(processes, name).tmux_session = None THEN {DefaultEnv}
    ELSE IF IsRepl(Get(processes, name).command)
    THEN {[DefaultEnv EXCEPT !.send = sd] : sd \in u.sends \ {"ok", "sent"}}
         \cup {[DefaultEnv EXCEPT !.raw = r, !.save = s] : r \in u.raws, s \in u.saves}
    ELSE {[DefaultEnv EXCEPT !.send = sd] : sd \in u.sends \ {"ok"}}
         \cup {[DefaultEnv EXCEPT !.raw = r] : r \in u.raws}

\* ... while "run" runs.
RunEnvs(u, name) ==
    IF ~Has(processes, name) THEN {DefaultEnv}
    ELSE IF SessionLive(name) THEN DispatchEnvs(u, name)
    ELSE SpawnEnvs(u)

\* ... while "new" runs.
NewEnvs(u, name) ==
    IF Has(processes, name) THEN {DefaultEnv}
    ELSE {[e EXCEPT !.save2 = e.save, !.save = s] : e \in RunEnvs(u, name), s \in u.saves}
         \cup {[e EXCEPT !.save2 = e.save, !.save = s] : e \in SpawnEnvs(u), s \in u.saves}

\* ... while "close" runs.
CloseEnvs(u, name) ==
    IF ~Has(processes, name) THEN {DefaultEnv}
    ELSE {[DefaultEnv EXCEPT !.save = s, !.hup = h, !.term = t] :
            s \in u.saves,
            h \in IF SessionLive(name) THEN {"dies", "survives"} ELSE {"dies"},
            t \in IF Get(processes, name).pid \in alive
                  THEN {"dies", "ignored"} ELSE {"dies"}}

\* ... while "close_all" runs: one environment per name closed.
RECURSIVE CloseAllEnvs(_, _)
CloseAllEnvs(u, names) ==
    IF names = {} THEN {<<>>}
    ELSE LET n == CHOOSE x \in names : TRUE
         IN  {(n :> e) @@ es : e \in CloseEnvs(u, n), es \in CloseAllEnvs(u, names \ {n})}

\* ------------------------------------------------------------ actions
Apply(w) ==
    /\ w.events <= MaxEvents
    /\ events' = w.events
    /\ processes' = w.processes
    /\ file' = w.file
    /\ tmux' = w.tmux
    /\ alive' = w.alive
    /\ nextPid' = w.nextPid
    /\ tmpfile' = w.tmpfile
    /\ last' = w.obs
    /\ UNCHANGED <<calls, pane>>

Init ==
    /\ processes = <<>>
    /\ file = NoFile
    /\ tmux = [s \in Sessions |-> NoSession]
    /\ alive = {}
    /\ nextPid = 1
    /\ events = 0
    /\ tmpfile = [n \in Names |-> [exists |-> FALSE, text |-> NoText]]
    /\ last = Obs("init", None)
    /\ calls = NoCalls
    /\ pane = IdlePane

New(u, name) ==
    \E e \in NewEnvs(u, name) :
        Apply(ExecNew(World("new", name), name, e))

Run(u, name, command) ==
    \E e \in RunEnvs(u, name) :
        Apply(ExecRun([World("run", name) EXCEPT !.obs.command = command],
                      name, command, e))

Send(u, name, command) ==
    \E e \in DispatchEnvs(u, name) :
        Apply(SendToProcess(World("send", name), name, command, e))

Close(u, name) ==
    \E e \in CloseEnvs(u, name) :
        Apply(ExecClose(World("close", name), name, e))

CloseAll(u) ==
    \E es \in CloseAllEnvs(u, Names) :
        Apply(ExecCloseAll(World("close_all", None), es))

List(name) == Apply(ExecList(World("list", name), name))

\* A later invocation of the program: CLI_Commander() loads the file.
Restart ==
    Apply([World("load", None) EXCEPT !.processes = LoadProcesses(file)])

\* A pane process ends by itself.
ProcessExit(pid) == Apply(ProcessDies(World("exit", None), pid))

Step(u) ==
    \/ \E name \in Names : New(u, name)
    \/ \E name \in Names, command \in u.commands : Run(u, name, command)
    \/ \E name \in Names : Send(u, name, CmdEchoHi)
    \/ \E name \in Names : Close(u, name)
    \/ CloseAll(u)
    \/ \E name \in Names \cup {None} : List(name)
    \/ Restart
    \/ \E pid \in alive : ProcessExit(pid)

Next == Step(Universe)
Spec == Init /\ [][Next]_vars

NextIO == Step(UniverseIO)
SpecIO == Init /\ [][NextIO]_vars

\* ------------------------------------------- the diff, on bounded texts
\* Every text of at most MaxLen characters over a small alphabet.
Alphabet == {"a", "b", " ", "\n"}
RawTexts == UNION {[1..n -> Alphabet] : n \in 0..MaxLen}
\* What an earlier dispatch can have stored as last_repl_output, or none.
PrevTexts == {NoText} \cup {CaptureOutput(raw) : raw \in RawTexts}

\* The registry after new("t") spawned bash, with a stored snapshot.
ActiveEntry(name, prev) ==
    [name |-> name, pid |-> 1, command |-> CmdBash, start_time |-> Now,
     tmux_session |-> SessionOf(name), last_repl_output |-> prev]

InitDiff ==
    \E prev \in PrevTexts :
        /\ processes = <<ActiveEntry("t", prev)>>
        /\ file = [state |-> "ok", doc |-> processes]
        /\ tmux = [s \in Sessions |->
                    IF s = SessionOf("t") THEN [pid |-> 1, command |-> CmdBash]
                    ELSE NoSession]
        /\ alive = {1}
        /\ nextPid = 2
        /\ events = 1
        /\ tmpfile = [n \in Names |-> [exists |-> FALSE, text |-> NoText]]
        /\ last = Obs("init", None)
        /\ calls = NoCalls
        /\ pane = IdlePane

\* One send to the session, the pane showing any bounded text.
SendCapture ==
    /\ last.op = "init"
    /\ \E raw \in RawTexts :
          Apply(SendToProcess(World("send", "t"), "t", CmdEchoHi,
                              [DefaultEnv EXCEPT !.raw = raw]))

NextDiff == SendCapture
SpecDiff == InitDiff /\ [][NextDiff]_vars

\* =============================================================== properties
Persisted == LoadProcesses(file)
Absent(n) == n \notin Keys(processes) /\ n \notin Keys(Persisted)
Mutating == {"new", "run", "send", "close", "close_all"}

C2_NewIsIdempotent ==
    [][\A n \in Names :
         (last'.op = "new" /\ last'.name = n /\ Has(processes, n))
            => /\ processes' = processes
               /\ Cardinality({i \in DOMAIN processes' : processes'[i].name = n}) = 1
               /\ file' = file
               /\ tmux' = tmux /\ alive' = alive /\ nextPid' = nextPid
               /\ last'.spawned = NoPid
               /\ last'.ret
      ]_vars

C2_Witness ==
    /\ last.op = "new" /\ last.existed /\ last.ret
    /\ Get(processes, last.name).pid # NoPid
    /\ Get(processes, last.name).pid \notin alive

\* C3: every registry entry, in memory and in the file, has a pid if and
\* only if it has a session id.
PidIffHandle(p) ==
    \A i \in DOMAIN p : (p[i].pid # NoPid) <=> (p[i].tmux_session # None)

C3_PidIffHandle == PidIffHandle(processes) /\ PidIffHandle(Persisted)

C3_Witness ==
    /\ last.op = "new" /\ ~last.ret /\ last.spawned # NoPid
    /\ Get(processes, last.name).pid = NoPid
    /\ \E i \in DOMAIN processes : processes[i].pid # NoPid

\* C4: when an action returns, the persisted registry equals the in-memory
\* one if its last registry write succeeded, and an action that wrote
\* nothing changed neither.
C4_PersistedMatchesMemory ==
    [][last'.op \in Mutating \cup {"list"}
         => /\ last'.saved = "ok" => Persisted' = processes'
            /\ last'.saved = "none" => (processes' = processes /\ file' = file)
      ]_vars

C4_Witness ==
    /\ last.op = "send" /\ last.ret /\ last.saved = "ok"
    /\ Persisted = processes
    /\ events > 1

\* C5: the stored snapshot of a session changes only in an interactive
\* dispatch to that session; list and new on an existing name change
\* nothing of the registry or its file.
C5_SnapshotFrame ==
    [][/\ \A n \in Names :
            (/\ Has(processes, n) /\ Has(processes', n)
             /\ Get(processes', n).last_repl_output # Get(processes, n).last_repl_output)
               => /\ last'.op \in {"run", "send"}
                  /\ last'.name = n
                  /\ last'.path = "repl"
       /\ (last'.op = "list" \/ (last'.op = "new" /\ last'.existed))
            => (processes' = processes /\ file' = file)
      ]_vars

C5_Witness ==
    /\ last.op = "list" /\ last.ret /\ last.name # None
    /\ Get(processes, last.name).last_repl_output # NoText

\* C6 (as stated): after a successful close(name) no tmux session of that
\* name is left and the pid the entry recorded is not alive.
C6_CloseKillsBacking ==
    (last.op = "close" /\ last.ret)
        => /\ ~SessionLive(last.name)
           /\ last.pid \notin alive

\* C7 (as stated): a run on the live session that new(name) spawned goes
\* through the one-shot path.
SpawnedByNew(n) == Has(processes, n) /\ Get(processes, n).command = CmdBash
Dispatched == last.op = "run" /\ last.ret /\ last.path # "none"

C7_RunAfterNewIsOneShot ==
    (Dispatched /\ SpawnedByNew(last.name)) => last.path = "oneshot"

\* C7 (amended): a run on the live session that new(name) spawned goes
\* through the interactive path: the capture becomes the stored snapshot, and
\* on the first run, with no snapshot stored yet, the response is that whole
\* capture.
C7_RunAfterNewIsInteractive ==
    (Dispatched /\ SpawnedByNew(last.name))
        => /\ last.path = "repl"
           /\ Get(processes, last.name).last_repl_output # NoText
           /\ last.prev = NoText
                => last.response = Get(processes, last.name).last_repl_output

C7_Witness ==
    /\ Dispatched /\ SpawnedByNew(last.name)
    /\ last.path = "repl" /\ last.prev = NoText
    /\ last.response = <<"a", "\n", "b">>

\* C8 (as stated): run(name, command) with no live session for name, and no
\* tmux call failing, ends with the session live, launched with command, and
\* pid, handle and start time recorded.
Bit(b) == IF b THEN 1 ELSE 0
C8_RunSpawnsSession ==
    [][\A n \in Names :
         (/\ last'.op = "run" /\ last'.name = n
          /\ ~SessionLive(n)
          /\ events' - events = Bit(last'.spawned # NoPid))
            => /\ last'.ret
               /\ SessionLive(n)'
               /\ tmux'[SessionOf(n)].command = Strip(last'.command)
               /\ Has(processes', n)
               /\ Get(processes', n).pid = tmux'[SessionOf(n)].pid
               /\ Get(processes', n).tmux_session = SessionOf(n)
               /\ Get(processes', n).start_time # None
      ]_vars

\* ---- the diff
\* The number of leading lines two line sequences share.
CommonPrefixLen(p, c) ==
    CHOOSE k \in 0..Min(Len(p), Len(c)) :
        /\ \A i \in 1..k : p[i] = c[i]
        /\ k < Min(Len(p), Len(c)) => p[k + 1] # c[k + 1]

\* The lines of current from the end of its common prefix with previous,
\* joined and trimmed.
NewPortion(previous, current) ==
    LET p == SplitLines(previous)
        c == SplitLines(current)
    IN  Strip(JoinLines(SubSeq(c, CommonPrefixLen(p, c) + 1, Len(c))))

Stored == Get(processes, "t").last_repl_output
Diffed ==
    last.op = "send" /\ last.path = "repl" /\ last.prev # NoText /\ last.prev # Stored

\* C9 (as stated): with a previous snapshot that differs from the current
\* one, the response is the new portion.
C9_ResponseIsNewPortion ==
    Diffed => last.response = NewPortion(last.prev, Stored)

\* C9 (amended): ... the response is the new portion, or the "no output"
\* sentinel when the new portion is empty; when current is previous with
\* lines appended, the response is the appended lines, joined and trimmed.
C9_ResponseIsNewPortionOrSentinel ==
    Diffed =>
        LET p == SplitLines(last.prev)
            c == SplitLines(Stored)
        IN  /\ last.response =
                  IF NewPortion(last.prev, Stored) = <<>> THEN NoOutput
                  ELSE NewPortion(last.prev, Stored)
            /\ (Len(c) > Len(p) /\ SubSeq(c, 1, Len(p)) = p)
                  => last.response = Strip(JoinLines(SubSeq(c, Len(p) + 1, Len(c))))

C9_Witness ==
    /\ Diffed
    /\ last.prev = <<"a">> /\ Stored = <<"a", "\n", "b">>
    /\ last.response = <<"b">>

\* C10 (as stated): a capture equal to the previous snapshot gives the
\* "no output" sentinel.
Unchanged == last.op = "send" /\ last.path = "repl" /\ last.prev = Stored

C10_UnchangedGivesSentinel == Unchanged => last.response = NoOutput

\* C10 (amended): a capture equal to the previous snapshot gives that
\* snapshot in full.
C10_UnchangedGivesSnapshot == Unchanged => last.response = Stored

C10_Witness ==
    /\ Unchanged
    /\ Stored = <<"a", "\n", "b">>
    /\ last.response = <<"a", "\n", "b">>

\* ------------------------------ the classifier, on bounded launch commands
\* Launch commands: every text of at most MaxLen characters over a small
\* alphabet, and the commands of the usage text with variations.
LaunchAlphabet == {"s", "h", "z", "S", " "}
LaunchTexts ==
    UNION {[1..n -> LaunchAlphabet] : n \in 0..MaxLen}
    \cup {CmdBash, CmdPython3, CmdEchoHi,
          <<"p", "y", "t", "h", "o", "n">>,
          <<"P", "y", "t", "h", "o", "n", "3">>,
          <<"p", "y", "t", "h", "o", "n", "3", " ", "-", "i">>,
          <<"b", "a", "s">>,
          <<"e", "c", "h", "o", " ", "s", "h">>}

\* The registry after run(name, launch) spawned the session: the recorded
\* command is safe_command = launch.strip().
LaunchedEntry(name, launch) ==
    [name |-> name, pid |-> 1, command |-> Strip(launch), start_time |-> Now,
     tmux_session |-> SessionOf(name), last_repl_output |-> NoText]

InitClassify ==
    \E launch \in LaunchTexts :
        /\ processes = <<LaunchedEntry("t", launch)>>
        /\ file = [state |-> "ok", doc |-> processes]
        /\ tmux = [s \in Sessions |->
                    IF s = SessionOf("t")
                    THEN [pid |-> 1, command |-> Strip(launch)]
                    ELSE NoSession]
        /\ alive = {1}
        /\ nextPid = 2
        /\ events = 1
        /\ tmpfile = [n \in Names |-> [exists |-> FALSE, text |-> NoText]]
        /\ last = Obs("init", None)
        /\ calls = NoCalls
        /\ pane = IdlePane

\* One dispatch to the session, of either command.
SendClassified ==
    /\ last.op = "init"
    /\ \E command \in Commands, raw \in Raws :
          Apply(SendToProcess([World("send", "t") EXCEPT !.obs.command = command],
                              "t", command, [DefaultEnv EXCEPT !.raw = raw]))

NextClassify == SendClassified
SpecClassify == InitClassify /\ [][NextClassify]_vars

\* The fixed interpreter and shell names.
InteractiveNames ==
    { <<"p", "y", "t", "h", "o", "n">>, <<"p", "y", "t", "h", "o", "n", "3">>,
      <<"b", "a", "s", "h">>, <<"s", "h">>, <<"z", "s", "h">> }

\* s without its leading and trailing whitespace: the one stretch of s with
\* only whitespace before and after it and none at its own ends.
Trimmed(s) ==
    CHOOSE t \in {SubSeq(s, i, j) : i \in 1..(Len(s) + 1), j \in 0..Len(s)} :
        \E i \in 1..(Len(s) + 1), j \in 0..Len(s) :
            /\ t = SubSeq(s, i, j)
            /\ \A k \in 1..(i - 1) : IsSpace(s[k])
            /\ \A k \in (j + 1)..Len(s) : IsSpace(s[k])
            /\ i <= j => (~IsSpace(s[i]) /\ ~IsSpace(s[j]))

\* The launch command, trimmed, is one of the names followed by anything.
LaunchedInteractive(cmd) ==
    \E kw \in InteractiveNames :
        /\ Len(Trimmed(cmd)) >= Len(kw)
        /\ \A k \in 1..Len(kw) : Trimmed(cmd)[k] = kw[k]

\* C11: a dispatch takes the interactive path exactly when the recorded
\* launch command, trimmed, starts with one of python, python3, bash, sh,
\* zsh (case-sensitively), and the one-shot path otherwise, whatever command
\* is dispatched.
C11_ClassifiedByLaunchCommand ==
    (last.op = "send" /\ last.name = "t")
        => /\ last.ret
           /\ last.path = IF LaunchedInteractive(Get(processes, "t").command)
                          THEN "repl" ELSE "oneshot"

C11_Witness ==
    /\ last.op = "send" /\ last.path = "oneshot"
    /\ Get(processes, "t").command = CmdEchoHi
    /\ last.command = CmdPython3

\* ------------------------------------ one-shot dispatches, step by step
\* The non-REPL branch of send_to_process is three events apart in time:
\* the keys are typed into the pane, the caller sleeps, the caller reads and
\* removes the file.  Meanwhile the pane's shell runs what was typed, one
\* command after the other: "(command) > tmpfile 2>&1" creates or truncates
\* the file when the command starts, the command writes its output into the
\* file it opened, and ends.  How long each of these takes is not fixed.
Callers == {1, 2}

\* A shell that no keyword of repl_keywords is a prefix of.
CmdDash == <<"d", "a", "s", "h">>

\* tmpfile = f"/tmp/cli_commander_{name}_output.txt"
TmpFile(name) == "/tmp/cli_commander_" \o name \o "_output.txt"

\* What the k-th command typed prints: a line of its own.
Digits == <<"1", "2", "3", "4", "5">>
OutputOf(k) == <<Digits[k], "\n">>

\* An invocation of the program that has loaded the registry.
IdleCall(procs) ==
    [pc |-> "idle", op |-> "none", name |-> None, processes |-> procs,
     cmd |-> 0, tmpfile |-> "", response |-> NoText, overlapped |-> FALSE,
     observed |-> "ok"]

InitShot ==
    /\ processes = <<LaunchedEntry("t", CmdDash)>>
    /\ file = [state |-> "ok", doc |-> processes]
    /\ tmux = [s \in Sessions |->
                IF s = SessionOf("t") THEN [pid |-> 1, command |-> CmdDash]
                ELSE NoSession]
    /\ alive = {1}
    /\ nextPid = 2
    /\ events = 1
    /\ tmpfile = [n \in Names |-> [exists |-> FALSE, text |-> NoText]]
    /\ last = Obs("init", None)
    /\ calls = [i \in Callers |-> IdleCall(processes)]
    /\ pane = IdlePane

\* subprocess.run(send_cmd): caller i types its wrapped command.
SendKeys(i, name) ==
    /\ calls[i].pc = "idle"
    /\ pane.typed < MaxDispatch
    /\ Has(calls[i].processes, name)
    /\ LET info == Get(calls[i].processes, name) IN
          /\ info.tmux_session # None
          /\ ~IsRepl(info.command)
          /\ tmux[info.tmux_session].pid # NoPid
    /\ pane' = [pane EXCEPT !.typed = @ + 1, !.queue = Append(@, pane.typed + 1)]
    /\ calls' = [j \in Callers |->
                   IF j = i
                   THEN [calls[i] EXCEPT
                           !.pc = "sent", !.op = "send", !.name = name,
                           !.cmd = pane.typed + 1, !.tmpfile = TmpFile(name),
                           !.response = NoText,
                           !.overlapped = \E k \in Callers : calls[k].pc = "sent"]
                   ELSE IF calls[j].pc = "sent"
                   THEN [calls[j] EXCEPT !.overlapped = TRUE]
                   ELSE calls[j]]
    /\ last' = Obs("keys", name)
    /\ UNCHANGED <<processes, file, tmux, alive, nextPid, tmpfile, events>>

\* After time.sleep(0.2): if os.path.exists(tmpfile), read it, strip, remove
\* it; log the response and return True.  Removing the path leaves a command
\* that still has the file open writing into a file nobody can read.
ReadBack(i) ==
    /\ calls[i].pc = "sent"
    /\ LET name == calls[i].name
           output == IF tmpfile[name].exists THEN Strip(tmpfile[name].text)
                     ELSE NoText
       IN  /\ tmpfile' = [tmpfile EXCEPT ![name] = [exists |-> FALSE, text |-> NoText]]
           /\ pane' = [pane EXCEPT !.linked = FALSE]
           /\ calls' = [calls EXCEPT ![i].pc = "idle", ![i].response = output]
           /\ last' = [Obs("send", name) EXCEPT
                         !.ret = TRUE, !.path = "oneshot", !.response = output]
    /\ UNCHANGED <<processes, file, tmux, alive, nextPid, events>>

\* The shell, at its prompt, starts the next command typed: the redirection
\* creates or truncates the file.
PaneStart ==
    /\ pane.running = 0 /\ pane.queue # <<>>
    /\ pane' = [pane EXCEPT !.running = Head(pane.queue), !.queue = Tail(@),
                            !.wrote = FALSE, !.linked = TRUE]
    /\ tmpfile' = [tmpfile EXCEPT !["t"] = [exists |-> TRUE, text |-> NoText]]
    /\ UNCHANGED <<processes, file, tmux, alive, nextPid, events, last, calls>>

\* The running command prints its output.
PaneWrite ==
    /\ pane.running # 0 /\ ~pane.wrote
    /\ pane' = [pane EXCEPT !.wrote = TRUE]
    /\ tmpfile' = IF pane.linked
                  THEN [tmpfile EXCEPT !["t"].text = @ \o OutputOf(pane.running)]
                  ELSE tmpfile
    /\ UNCHANGED <<processes, file, tmux, alive, nextPid, events, last, calls>>

\* The running command ends.
PaneEnd ==
    /\ pane.running # 0 /\ pane.wrote
    /\ pane' = [pane EXCEPT !.running = 0, !.wrote = FALSE, !.linked = FALSE]
    /\ UNCHANGED <<processes, file, tmux, alive, nextPid, tmpfile, events, last, calls>>

NextShot ==
    \/ \E i \in Callers : SendKeys(i, "t")
    \/ \E i \in Callers : ReadBack(i)
    \/ PaneStart
    \/ PaneWrite
    \/ PaneEnd
SpecShot == InitShot /\ [][NextShot]_vars

InFlight(i) == i \in DOMAIN calls /\ calls[i].pc = "sent"
Returned(i) == i \in DOMAIN calls /\ calls[i].pc = "idle" /\ calls[i].cmd # 0

\* C12 (as stated): two one-shot dispatches to one session name that are
\* under way at the same time use different temporary files.
C12_DistinctArtifacts ==
    \A i, j \in Callers :
        (i # j /\ InFlight(i) /\ InFlight(j) /\ calls[i].name = calls[j].name)
            => calls[i].tmpfile # calls[j].tmpfile

\* C16 (as stated): the response of a one-shot dispatch that no other
\* dispatch overlapped holds no output of a command dispatched earlier.
C16_NoEarlierOutput ==
    \A i \in Callers :
        (Returned(i) /\ ~calls[i].overlapped)
            => \A k \in 1..(calls[i].cmd - 1) :
                  calls[i].response # Strip(OutputOf(k))

\* ------------------------------- invocations sharing the registry file
\* Each invocation of the program constructs CLI_Commander(), which loads
\* the file into its own map, runs one action on its own name, and saves its
\* whole map.  save_processes is two events apart in time: open(..., 'w')
\* truncates the file, json.dump writes the map into it.
NameOf(i) == IF i = 1 THEN "t" ELSE "t2"

\* self.processes = {} before load_processes.
StartCall(i) ==
    [IdleCall(<<>>) EXCEPT !.pc = "start", !.name = NameOf(i), !.observed = "none"]

\* What the file holds when the invocations start.
StoredRegistries ==
    { <<>>,
      <<LaunchedEntry("t", CmdBash)>>,
      <<LaunchedEntry("t2", CmdBash)>>,
      <<LaunchedEntry("t", CmdBash), LaunchedEntry("t2", CmdBash)>> }

InitConc ==
    \E stored \in StoredRegistries :
        /\ processes = stored
        /\ file = IF stored = <<>> THEN NoFile ELSE [state |-> "ok", doc |-> stored]
        /\ tmux = [s \in Sessions |-> NoSession]
        /\ alive = {}
        /\ nextPid = 1
        /\ events = 0
        /\ tmpfile = [n \in Names |-> [exists |-> FALSE, text |-> NoText]]
        /\ last = Obs("init", None)
        /\ calls = [i \in Callers |-> StartCall(i)]
        /\ pane = IdlePane

MoveCall(i, call) ==
    /\ calls' = [calls EXCEPT ![i] = call]
    /\ UNCHANGED <<processes, tmux, alive, nextPid, tmpfile, events, last, pane>>

\* CLI_Commander.__init__: load_processes.
CallLoad(i) ==
    /\ calls[i].pc = "start"
    /\ MoveCall(i, [calls[i] EXCEPT !.pc = "loaded", !.observed = file.state,
                                    !.processes = LoadProcesses(file)])
    /\ UNCHANGED file

\* "new" on a name not in the map: the entry is created, a save follows;
\* on a name in the map: nothing to write.
CallNew(i) ==
    /\ calls[i].pc = "loaded"
    /\ MoveCall(i,
          IF Has(calls[i].processes, calls[i].name)
          THEN [calls[i] EXCEPT !.pc = "returned", !.op = "new"]
          ELSE [calls[i] EXCEPT !.pc = "changed", !.op = "new",
                   !.processes = Put(@, NewEntry(calls[i].name))])
    /\ UNCHANGED file

\* "close" on a name in the map: the entry is deleted, a save follows; on a
\* name not in the map: not found.
CallClose(i) ==
    /\ calls[i].pc = "loaded"
    /\ MoveCall(i,
          IF Has(calls[i].processes, calls[i].name)
          THEN [calls[i] EXCEPT !.pc = "changed", !.op = "close",
                   !.processes = Del(@, calls[i].name)]
          ELSE [calls[i] EXCEPT !.pc = "returned", !.op = "close"])
    /\ UNCHANGED file

\* save_processes, open(self.process_file, 'w'): the file is there and empty.
CallSaveOpen(i) ==
    /\ calls[i].pc = "changed"
    /\ file' = Corrupt
    /\ MoveCall(i, [calls[i] EXCEPT !.pc = "opened"])

\* save_processes, json.dump(self.processes, f): the file holds the map.
CallSaveDump(i) ==
    /\ calls[i].pc = "opened"
    /\ file' = [state |-> "ok", doc |-> calls[i].processes]
    /\ MoveCall(i, [calls[i] EXCEPT !.pc = "done"])

NextConc ==
    \/ \E i \in Callers : CallLoad(i)
    \/ \E i \in Callers : CallNew(i)
    \/ \E i \in Callers : CallClose(i)
    \/ \E i \in Callers : CallSaveOpen(i)
    \/ \E i \in Callers : CallSaveDump(i)
SpecConc == InitConc /\ [][NextConc]_vars

Loaded(i) == i \in DOMAIN calls /\ calls[i].observed # "none"
Finished(i) == i \in DOMAIN calls /\ calls[i].pc \in {"done", "returned"}
Wrote(i) == i \in DOMAIN calls /\ calls[i].pc = "done"

\* C13 (as stated): a load never observes a half-written registry file: it
\* reads a complete registry, or finds no file where none was ever written.
C13_LoadSeesWholeRegistry ==
    \A i \in Callers : Loaded(i) => calls[i].observed # "corrupt"

\* C20 (as stated): once two invocations working on different names, each
\* having loaded a complete registry, have both finished, the persisted
\* registry holds every name one of them created and none that one of them
\* closed.
C20_BothMutationsPersisted ==
    (\A i \in Callers : Finished(i) /\ calls[i].observed # "corrupt")
        => \A i \in Callers :
              Wrote(i) => /\ calls[i].op = "new" => calls[i].name \in Keys(Persisted)
                          /\ calls[i].op = "close" => calls[i].name \notin Keys(Persisted)

\* C14: close(name) for a name that is not in the registry returns failure,
\* sends no signal, kills no tmux session and changes neither the in-memory
\* registry nor the file.
C14_CloseMissingIsNotFound ==
    [][\A n \in Names :
         (last'.op = "close" /\ last'.name = n /\ ~Has(processes, n))
            => /\ ~last'.ret
               /\ last'.signals = <<>>
               /\ tmux' = tmux /\ alive' = alive
               /\ processes' = processes
               /\ file' = file /\ last'.saved = "none"
      ]_vars

\* close of a name that is not registered, while another session is
\* registered and its process alive.
C14_Witness ==
    /\ last.op = "close" /\ ~last.ret /\ ~last.existed
    /\ ~Has(processes, last.name)
    /\ \E i \in DOMAIN processes : processes[i].pid \in alive

\* C15: an interactive dispatch with no snapshot stored before, or with a
\* capture equal to the stored snapshot, responds with the capture in full.
FirstOrSame ==
    /\ last.op = "send" /\ last.path = "repl"
    /\ last.prev = NoText \/ last.prev = Stored

C15_FirstOrSameGivesCapture == FirstOrSame => last.response = Stored

C15_Witness ==
    /\ FirstOrSame /\ last.prev = NoText
    /\ Stored = <<"a", "\n", "b">>
    /\ last.response = <<"a", "\n", "b">>

\* C17: a run or send to a registered name whose session is live that
\* returns failure leaves the session live and the registry, in memory and
\* in the file, as it was: the entry's pid, handle, launch command and
\* snapshot, and every other entry.
C17_FailedDispatchChangesNothing ==
    [][\A n \in Names :
         (/\ last'.op \in {"run", "send"} /\ last'.name = n
          /\ Has(processes, n) /\ SessionLive(n)
          /\ ~last'.ret)
            => /\ processes' = processes
               /\ file' = file
               /\ tmux' = tmux /\ alive' = alive
      ]_vars

\* A dispatch to a live, recorded session that holds a snapshot has raised.
C17_Witness ==
    /\ last.op \in {"run", "send"} /\ ~last.ret
    /\ Has(processes, last.name) /\ SessionLive(last.name)
    /\ Get(processes, last.name).tmux_session = SessionOf(last.name)
    /\ Get(processes, last.name).pid \in alive
    /\ Get(processes, last.name).last_repl_output # NoText

\* ------------------------------------------- terminate_process, alone
\* Processes: the pane processes of cli_t and cli_t2, and two that belong
\* to no session.
Pids == {1, 2, 3, 4}

InitTerm ==
    \E running \in SUBSET Pids :
        /\ processes = <<>>
        /\ file = NoFile
        /\ tmux = [s \in Sessions |->
                    IF s = SessionOf("t") /\ 1 \in running
                    THEN [pid |-> 1, command |-> CmdBash]
                    ELSE IF s = SessionOf("t2") /\ 2 \in running
                    THEN [pid |-> 2, command |-> CmdPython3]
                    ELSE NoSession]
        /\ alive = running
        /\ nextPid = 5
        /\ events = 0
        /\ tmpfile = [n \in Names |-> [exists |-> FALSE, text |-> NoText]]
        /\ last = Obs("init", None)
        /\ calls = NoCalls
        /\ pane = IdlePane

\* terminate_process(pid), the process taking SIGTERM in any of the ways.
Terminate(pid, term) ==
    Apply(TerminateProcess([World("terminate", None) EXCEPT
                               !.obs.pid = pid, !.obs.existed = pid \in alive],
                           pid, term))

NextTerm == \E pid \in Pids \cup {NoPid}, term \in TermOutcomes : Terminate(pid, term)
SpecTerm == InitTerm /\ [][NextTerm]_vars

Terminated == last.op = "terminate"
NoTarget == last.pid = NoPid \/ ~last.existed

\* C18 (as stated): a null pid or a process that does not exist gets no
\* signal and False; otherwise SIGTERM goes first and True is returned, a
\* process that exits on SIGTERM gets no SIGKILL, and one that ignores
\* SIGTERM gets SIGKILL and is dead.
C18_ExitOnTermNeverKilled ==
    Terminated =>
        /\ NoTarget => (last.signals = <<>> /\ last.terminated = "false")
        /\ ~NoTarget =>
              /\ last.terminated = "true"
              /\ last.signals[1] = "SIGTERM"
              /\ last.pid \notin alive
              /\ last.disposition \in {"dies", "late"}
                    => last.signals = <<"SIGTERM">>
              /\ last.disposition = "ignored"
                    => last.signals = <<"SIGTERM", "SIGKILL">>

\* C18 (amended): ... a process that has exited when liveness is checked
\* again after the grace period gets no SIGKILL; one still alive then,
\* because it ignores SIGTERM or has not finished exiting, gets SIGKILL and
\* is dead.
C18_KilledIfAliveAtRecheck ==
    Terminated =>
        /\ NoTarget => (last.signals = <<>> /\ last.terminated = "false")
        /\ ~NoTarget =>
              /\ last.terminated = "true"
              /\ last.signals[1] = "SIGTERM"
              /\ last.pid \notin alive
              /\ last.disposition = "dies"
                    => last.signals = <<"SIGTERM">>
              /\ last.disposition \in {"late", "ignored"}
                    => last.signals = <<"SIGTERM", "SIGKILL">>

C18_Witness ==
    /\ Terminated /\ ~NoTarget
    /\ last.disposition = "late"
    /\ last.signals = <<"SIGTERM", "SIGKILL">>
    /\ last.pid \notin alive /\ alive # {}

\* C19 (as stated): when run spawns a new session for a name, the entry
\* holds no snapshot captured from an earlier session of that name, so the
\* first dispatch to the new session has no baseline from a dead one.
C19_RespawnDropsBaseline ==
    [][\A n \in Names :
         (last'.op = "run" /\ last'.name = n /\ last'.ret /\ last'.spawned # NoPid)
            => Get(processes', n).last_repl_output = NoText
      ]_vars

====
